---- MODULE Spec2Model ----
(***************************************************************************)
(* Model of timings::ProcessTiming (process_timing.hpp): a stopwatch on    *)
(* std::chrono::steady_clock guarded by a std::recursive_mutex, with the   *)
(* duration decomposition and rendering it uses for to_string().           *)
(*                                                                         *)
(* Time points and durations are integer tick counts.  The steady clock    *)
(* ticks in nanoseconds (steady_clock::period is std::nano on the common   *)
(* standard libraries).  Rep is an integer type (the default               *)
(* std::chrono::nanoseconds::rep), so every duration_cast truncates.       *)
(*                                                                         *)
(* The static functions are also followed on their own, for durations of   *)
(* every unit Period.  For a Period coarser than nanoseconds they only     *)
(* compile with a floating-point Rep; the durations given to them then     *)
(* hold whole counts, on which every cast to a unit (whose rep is an       *)
(* integer) and every subtraction gives the value the integer arithmetic   *)
(* of this module gives.                                                   *)
(***************************************************************************)
EXTENDS Integers, Sequences, FiniteSets, TLC

(***************************************************************************)
(* Bounds of the model.                                                    *)
(***************************************************************************)
\* The steady clock is followed up to this many nanoseconds.
MaxClock == 1599

\* Threads sharing the one ProcessTiming instance.
Threads == {"t1", "t2"}

NoThread == "nobody"

\* Amounts by which the steady clock moves forward between two readings.
ClockSteps == {700, 800}

\* Values found in the members before the constructor body has run.
Indeterminate == {0, 800}

\* A local that holds no value yet is None; one holding v is Some(v), and
\* Val gives v back.
None == <<>>

Some(v) == <<v>>

Val(o) == o[1]

(***************************************************************************)
(* Tick periods: std::ratio<num, den> seconds per tick.                    *)
(***************************************************************************)
RECURSIVE GCD(_, _)
GCD(a, b) ==
    IF b = 0 THEN a ELSE GCD(b, a % b)

\* std::ratio<n, d>: its members num and den are n and d in lowest terms.
ratio(n, d) == [num |-> n \div GCD(n, d), den |-> d \div GCD(n, d)]

nano == ratio(1, 1000000000)

micro == ratio(1, 1000000)

milli == ratio(1, 1000)

seconds_period == ratio(1, 1)

minutes_period == ratio(60, 1)

hours_period == ratio(3600, 1)

days_period == ratio(86400, 1)

\* steady_clock::period
clock_period == nano

\* Period arguments with which elapsed<Rep,Period>() is instantiated.
ElapsedPeriods == {nano, micro}

\* Period arguments with which to_string<Rep,Period>() is instantiated.  With
\* an integer Rep, SplitTimeElements only compiles when every unit down to
\* nanoseconds converts implicitly (without truncation) to
\* duration<Rep,Period>, that is for Period = std::nano.
ToStringPeriods == {nano}

(***************************************************************************)
(* Integer arithmetic as the C++ build performs it.                        *)
(***************************************************************************)
\* The product of two intmax_t values below 2^30, kept as three limbs in base
\* 2^15 (most significant first) because TLC evaluates with 32-bit integers
\* while intmax_t has 64 bits.
Limb == 32768

WideMul(x, y) ==
    LET xh == x \div Limb
        xl == x % Limb
        yh == y \div Limb
        yl == y % Limb
        l0 == xl * yl
        l1 == xh * yl + xl * yh + (l0 \div Limb)
        l2 == xh * yh + (l1 \div Limb)
    IN  <<l2, l1 % Limb, l0 % Limb>>

WideLess(a, b) ==
    \/ a[1] < b[1]
    \/ a[1] = b[1] /\ a[2] < b[2]
    \/ a[1] = b[1] /\ a[2] = b[2] /\ a[3] < b[3]

(***************************************************************************)
(* Ratio comparisons (lines 12-30).                                        *)
(***************************************************************************)
\* Each numerator multiplied by its own denominator.
ratio_less_uncrossed(R1, R2) ==
    WideLess(WideMul(R1.num, R1.den), WideMul(R2.num, R2.den))

ratio_less(R1, R2) ==
    WideLess(WideMul(R1.num, R2.den), WideMul(R2.num, R1.den))

\* std::ratio_equal and std::ratio_not_equal compare the reduced members.
ratio_equal(R1, R2) == R1.num = R2.num /\ R1.den = R2.den

ratio_not_equal(R1, R2) == ~ratio_equal(R1, R2)

\* The operands of ratio_less not exchanged.
ratio_less_equal_unswapped(R1, R2) == ~ratio_less(R1, R2)

ratio_less_equal(R1, R2) == ~ratio_less(R2, R1)

ratio_greater(R1, R2) == ratio_less(R2, R1)

ratio_greater_equal(R1, R2) == ~ratio_less(R1, R2)

(***************************************************************************)
(* 64-bit counts.  A duration<Rep,Period> with the 64-bit Rep holds counts *)
(* that TLC's 32-bit integers cannot, so a count is kept as <<hi, lo>>     *)
(* with value hi * 2^30 + lo and 0 <= lo < 2^30 (hi carries the sign).     *)
(***************************************************************************)
WideBase == Limb * Limb

Wide(n) ==
    LET wide[x \in Int] == <<x \div WideBase, x % WideBase>>
    IN  wide[n]

\* The count as a plain integer, when it has one (-2^31 <= value < 2^31).
Narrow(w) ==
    LET narrow[v \in Int \X Int] == v[1] * WideBase + v[2]
    IN  narrow[w]

WideNeg(w) ==
    LET neg[v \in Int \X Int] ==
            IF v[2] = 0 THEN <<-v[1], 0>> ELSE <<-v[1] - 1, WideBase - v[2]>>
    IN  neg[w]

WideAdd(a, b) ==
    LET sum[hi \in Int, lo \in Int] == <<hi + (lo \div WideBase), lo % WideBase>>
        add[x \in Int \X Int, y \in Int \X Int] == sum[x[1] + y[1], x[2] + y[2]]
    IN  add[a, b]

\* The operands of the subtraction exchanged.
WideSub_reversed(a, b) == WideAdd(WideNeg(a), b)

WideSub(a, b) == WideAdd(a, WideNeg(b))

\* count * m for a factor 1 <= m < 2^30.
WideTimes(w, m) ==
    LET low[hi \in Int, p \in Int \X Int \X Int] ==
            <<hi + p[1], p[2] * Limb + p[3]>>
        pos[v \in Int \X Int, f \in Int] == low[v[1] * f, WideMul(v[2], f)]
        times[v \in Int \X Int, f \in Int] ==
            IF f = 1 THEN v
            ELSE IF v[1] < 0 THEN WideNeg(pos[WideNeg(v), f])
            ELSE pos[v, f]
    IN  times[w, m]

\* The quotient rounded down instead of toward zero.
WideQuot_floor(w, d) ==
    LET quot[v \in Int \X Int, n \in Int] ==
            LET bit[qr \in Int \X Int, b \in 0..1] ==
                    IF 2 * qr[2] + b >= n
                    THEN <<2 * qr[1] + 1, 2 * qr[2] + b - n>>
                    ELSE <<2 * qr[1], 2 * qr[2] + b>>
                low[k \in 0..30, r \in Int, lo \in Int] ==
                    IF k = 0 THEN <<0, r>>
                    ELSE bit[low[k - 1, r, lo \div 2], lo % 2]
            IN  <<v[1] \div n, low[30, v[1] % n, v[2]][1]>>
        trunc[v \in Int \X Int, n \in Int] ==
            IF n = 1 THEN v
            ELSE IF v[1] < 0
                 THEN WideNeg(quot[WideAdd(WideNeg(v), Wide(n - 1)), n])
            ELSE quot[v, n]
    IN  trunc[w, d]

\* count / d for a divisor 1 <= d <= 2^30, truncated toward zero as C++
\* integer division truncates: the high part is divided directly and its
\* remainder is carried through the 30 bits of the low part.
WideQuot(w, d) ==
    LET quot[v \in Int \X Int, n \in Int] ==
            LET bit[qr \in Int \X Int, b \in 0..1] ==
                    IF 2 * qr[2] + b >= n
                    THEN <<2 * qr[1] + 1, 2 * qr[2] + b - n>>
                    ELSE <<2 * qr[1], 2 * qr[2] + b>>
                low[k \in 0..30, r \in Int, lo \in Int] ==
                    IF k = 0 THEN <<0, r>>
                    ELSE bit[low[k - 1, r, lo \div 2], lo % 2]
            IN  <<v[1] \div n, low[30, v[1] % n, v[2]][1]>>
        trunc[v \in Int \X Int, n \in Int] ==
            IF n = 1 THEN v
            ELSE IF v[1] < 0 THEN WideNeg(quot[WideNeg(v), n])
            ELSE quot[v, n]
    IN  trunc[w, d]

(***************************************************************************)
(* std::chrono::duration_cast between integer durations: the count is      *)
(* multiplied by the numerator and divided by the denominator of           *)
(* ratio_divide<From, To> (reduced to lowest terms), truncating toward     *)
(* zero.  Numerator and denominator are each applied as two factors,       *)
(* which gives the same product and the same truncated quotient.           *)
(***************************************************************************)
duration_cast(w, From, To) ==
    LET gn == GCD(From.num, To.num)
        gd == GCD(From.den, To.den)
        n1 == From.num \div gn
        n2 == To.den \div gd
        d1 == From.den \div gd
        d2 == To.num \div gn
    IN  WideQuot(WideQuot(WideTimes(WideTimes(w, n1), n2), d1), d2)

\* duration_cast of a count that fits a plain integer, as does its result.
DurationCast(c, From, To) == Narrow(duration_cast(Wide(c), From, To))

(***************************************************************************)
(* SplitTimeElements (lines 65-81).  For each unit in turn, coarsest       *)
(* first:                                                                  *)
(*     timeElements.x = std::chrono::duration_cast<unit>(duration);        *)
(*     duration -= timeElements.x;                                         *)
(* where the subtraction converts the unit back to duration<Rep,Period>.   *)
(* After the nanoseconds (line 80) nothing is subtracted.  The duration is *)
(* a 64-bit count; the count of every unit fits a plain integer.           *)
(***************************************************************************)
UnitPeriods == <<days_period, hours_period, minutes_period, seconds_period,
                 milli, micro, nano>>

UnitFields == <<"d", "h", "m", "s", "ms", "us", "ns">>

\* struct TimeElements (lines 44-53): one integer count per unit.
TimeElements == [{UnitFields[i] : i \in 1..7} -> Int]

\* Line 67 (duration -= timeElements.d) left out.
SplitTimeElements_keepdays(duration, Period) ==
    LET from[i \in 1..8, rem \in Int \X Int] ==
            IF i = 8 THEN <<>>
            ELSE LET rest[x \in Int] ==
                         (UnitFields[i] :> x) @@
                         from[i + 1,
                              IF i = 1 THEN rem
                              ELSE WideSub(rem, duration_cast(Wide(x),
                                                              UnitPeriods[i],
                                                              Period))]
                 IN  rest[Narrow(duration_cast(rem, Period, UnitPeriods[i]))]
    IN  from[1, duration]

SplitTimeElements(duration, Period) ==
    LET from[i \in 1..8, rem \in Int \X Int] ==
            IF i = 8 THEN <<>>
            ELSE LET rest[x \in Int] ==
                         (UnitFields[i] :> x) @@
                         from[i + 1,
                              WideSub(rem, duration_cast(Wide(x),
                                                         UnitPeriods[i],
                                                         Period))]
                 IN  rest[Narrow(duration_cast(rem, Period, UnitPeriods[i]))]
    IN  from[1, duration]

(***************************************************************************)
(* Stream output of an integer count, and std::setw / std::setfill('0').   *)
(***************************************************************************)
DigitChar(n) ==
    CASE n = 0 -> "0" [] n = 1 -> "1" [] n = 2 -> "2" [] n = 3 -> "3"
      [] n = 4 -> "4" [] n = 5 -> "5" [] n = 6 -> "6" [] n = 7 -> "7"
      [] n = 8 -> "8" [] n = 9 -> "9"

RECURSIVE Digits(_)
Digits(n) ==
    IF n < 10 THEN DigitChar(n) ELSE Digits(n \div 10) \o DigitChar(n % 10)

\* stream << count
PutCount(n) ==
    IF n < 0 THEN "-" \o Digits(-n) ELSE Digits(n)

\* stream << std::setw(w) << std::setfill('0') << count
RECURSIVE PadLeft(_, _)
PadLeft(str, w) ==
    IF Len(str) < w THEN PadLeft("0" \o str, w) ELSE str

\* std::setw and std::setfill left out.
PutCountW_unpadded(n, w) == PutCount(n)

PutCountW(n, w) == PadLeft(PutCount(n), w)

(***************************************************************************)
(* TimeElementsToString<Period> (lines 88-122).                            *)
(***************************************************************************)
\* Line 116 tests count() >= 0.
TimeElementsToString_ns_eager(te, Period) ==
    LET a1 == te.d > 0
        p1 == IF ratio_less_equal(Period, days_period) /\ a1
              THEN PutCount(te.d) \o "d." ELSE ""
        a2 == a1 \/ te.h > 0
        p2 == IF ratio_less_equal(Period, hours_period) /\ a2
              THEN PutCountW(te.h, 2) \o "h." ELSE ""
        a3 == a2 \/ te.m > 0
        p3 == IF ratio_less_equal(Period, minutes_period) /\ a3
              THEN PutCountW(te.m, 2) \o "m." ELSE ""
        a4 == a3 \/ te.s > 0
        p4 == IF ratio_less_equal(Period, seconds_period) /\ a4
              THEN PutCountW(te.s, 2) \o "s." ELSE ""
        a5 == a4 \/ te.ms > 0
        p5 == IF ratio_less_equal(Period, milli) /\ a5
              THEN PutCountW(te.ms, 3) \o "ms." ELSE ""
        a6 == a5 \/ te.us > 0
        p6 == IF ratio_less_equal(Period, micro) /\ a6
              THEN PutCountW(te.us, 3) \o "us." ELSE ""
        a7 == a6 \/ te.ns >= 0
        p7 == IF ratio_less_equal(Period, nano) /\ a7
              THEN PutCountW(te.ns, 3) \o "ns." ELSE ""
    IN  p1 \o p2 \o p3 \o p4 \o p5 \o p6 \o p7

\* Line 92 tests count() >= 0.
TimeElementsToString_d_eager(te, Period) ==
    LET a1 == te.d >= 0
        p1 == IF ratio_less_equal(Period, days_period) /\ a1
              THEN PutCount(te.d) \o "d." ELSE ""
        a2 == a1 \/ te.h > 0
        p2 == IF ratio_less_equal(Period, hours_period) /\ a2
              THEN PutCountW(te.h, 2) \o "h." ELSE ""
        a3 == a2 \/ te.m > 0
        p3 == IF ratio_less_equal(Period, minutes_period) /\ a3
              THEN PutCountW(te.m, 2) \o "m." ELSE ""
        a4 == a3 \/ te.s > 0
        p4 == IF ratio_less_equal(Period, seconds_period) /\ a4
              THEN PutCountW(te.s, 2) \o "s." ELSE ""
        a5 == a4 \/ te.ms > 0
        p5 == IF ratio_less_equal(Period, milli) /\ a5
              THEN PutCountW(te.ms, 3) \o "ms." ELSE ""
        a6 == a5 \/ te.us > 0
        p6 == IF ratio_less_equal(Period, micro) /\ a6
              THEN PutCountW(te.us, 3) \o "us." ELSE ""
        a7 == a6 \/ te.ns > 0
        p7 == IF ratio_less_equal(Period, nano) /\ a7
              THEN PutCountW(te.ns, 3) \o "ns." ELSE ""
    IN  p1 \o p2 \o p3 \o p4 \o p5 \o p6 \o p7

TimeElementsToString(te, Period) ==
    LET a1 == te.d > 0
        p1 == IF ratio_less_equal(Period, days_period) /\ a1
              THEN PutCount(te.d) \o "d." ELSE ""
        a2 == a1 \/ te.h > 0
        p2 == IF ratio_less_equal(Period, hours_period) /\ a2
              THEN PutCountW(te.h, 2) \o "h." ELSE ""
        a3 == a2 \/ te.m > 0
        p3 == IF ratio_less_equal(Period, minutes_period) /\ a3
              THEN PutCountW(te.m, 2) \o "m." ELSE ""
        a4 == a3 \/ te.s > 0
        p4 == IF ratio_less_equal(Period, seconds_period) /\ a4
              THEN PutCountW(te.s, 2) \o "s." ELSE ""
        a5 == a4 \/ te.ms > 0
        p5 == IF ratio_less_equal(Period, milli) /\ a5
              THEN PutCountW(te.ms, 3) \o "ms." ELSE ""
        a6 == a5 \/ te.us > 0
        p6 == IF ratio_less_equal(Period, micro) /\ a6
              THEN PutCountW(te.us, 3) \o "us." ELSE ""
        a7 == a6 \/ te.ns > 0
        p7 == IF ratio_less_equal(Period, nano) /\ a7
              THEN PutCountW(te.ns, 3) \o "ns." ELSE ""
    IN  p1 \o p2 \o p3 \o p4 \o p5 \o p6 \o p7

(***************************************************************************)
(* TimeToString (lines 129-135).                                           *)
(***************************************************************************)
\* TimeElementsToString instantiated with std::nano instead of Period.
TimeToString_nano(duration, Period) ==
    LET str[timeElements \in TimeElements] ==
            TimeElementsToString(timeElements, nano)
    IN  str[SplitTimeElements(duration, Period)]

TimeToString(duration, Period) ==
    LET str[timeElements \in TimeElements] ==
            TimeElementsToString(timeElements, Period)
    IN  str[SplitTimeElements(duration, Period)]

(***************************************************************************)
(* State.                                                                  *)
(***************************************************************************)
VARIABLES
    clock,        \* value std::chrono::steady_clock::now() returns
    startTime_,   \* member _startTime
    endTime_,     \* member _endTime
    ongoing_,     \* member _ongoing
    mutex_,       \* member _mutex: owning thread and its hold count
    constructed,  \* the constructor has returned
    pc,           \* per thread: the line it is about to execute
    caller,       \* per thread: who called the innermost member function
    per,          \* per thread: the Period template argument of the call
    sample,       \* per thread: the value now() returned in this call
    diff,         \* per thread: local `diff` of elapsed()
    endTime,      \* per thread: local `endTime` of getEndTime()
    duration,     \* per thread: local `duration` of to_string()
    timeStr,      \* per thread: local `timeStr` of to_string()
    ret,          \* per thread: the value of the return statement
    snap,         \* per thread: the members when it last took the free lock
    lastStart,    \* history: the clock value the latest start() sampled
    seen,         \* history: values returned since the members last changed
    prev,         \* history: per thread, its latest elapsed() while Running
    call          \* a client's call of one of the static functions

members == <<startTime_, endTime_, ongoing_>>

\* Everything a ProcessTiming object and its callers hold.
stopwatch == <<clock, startTime_, endTime_, ongoing_, mutex_, constructed, pc,
               caller, per, sample, diff, endTime, duration, timeStr, ret,
               snap, lastStart, seen, prev>>

vars == <<clock, startTime_, endTime_, ongoing_, mutex_, constructed, pc,
          caller, per, sample, diff, endTime, duration, timeStr, ret, snap,
          lastStart, seen, prev, call>>

\* No static function is being called.
NoCall == [fn |-> "none", arg |-> None, ret |-> None]

Triple == [s |-> startTime_, e |-> endTime_, o |-> ongoing_]

NoneSeen == [startTime |-> None, endTime |-> None,
             elapsed |-> [P \in ElapsedPeriods |-> None]]

\* The first line of every member function is its lock_guard.
LockPcs == {"start_152", "stop_163", "getStartTime_173", "getEndTime_182",
            "isRunning_194", "elapsed_204", "to_string_219"}

\* The closing brace of every member function destroys its lock_guard.
UnlockPcs == {"start_156", "stop_166", "getStartTime_175", "getEndTime_187",
              "isRunning_196", "elapsed_211", "to_string_224"}

AfterLock(l) ==
    CASE l = "start_152" -> "start_153"
      [] l = "stop_163" -> "stop_164"
      [] l = "getStartTime_173" -> "getStartTime_174"
      [] l = "getEndTime_182" -> "getEndTime_183"
      [] l = "isRunning_194" -> "isRunning_195"
      [] l = "elapsed_204" -> "elapsed_206"
      [] l = "to_string_219" -> "to_string_220"

Goto(t, l) == pc' = [pc EXCEPT ![t] = l]

(***************************************************************************)
(* std::recursive_mutex.                                                   *)
(***************************************************************************)
\* A lock that lets a second thread in while the first still holds it.
mutex_lock_shared(t) ==
    mutex_' = [owner |-> t, count |-> mutex_.count + 1]

\* A std::mutex: the owner itself cannot take it a second time.
mutex_lock_plain(t) ==
    /\ mutex_.owner = NoThread
    /\ mutex_' = [owner |-> t, count |-> mutex_.count + 1]

mutex_lock(t) ==
    /\ mutex_.owner \in {NoThread, t}
    /\ mutex_' = [owner |-> t, count |-> mutex_.count + 1]

mutex_unlock(t) ==
    mutex_' = IF mutex_.count = 1
              THEN [owner |-> NoThread, count |-> 0]
              ELSE [owner |-> mutex_.owner, count |-> mutex_.count - 1]

(***************************************************************************)
(* Initial state: storage allocated, constructor not yet run.  The members *)
(* are not initialised by any member initialiser, so they hold             *)
(* indeterminate values until the constructor body calls start().          *)
(***************************************************************************)
InitAt(now) ==
    /\ clock = now
    /\ startTime_ \in Indeterminate
    /\ endTime_ \in Indeterminate
    /\ ongoing_ \in BOOLEAN
    /\ mutex_ = [owner |-> NoThread, count |-> 0]
    /\ constructed = FALSE
    /\ pc = [t \in Threads |-> "idle"]
    /\ caller = [t \in Threads |-> "client"]
    /\ per = [t \in Threads |-> None]
    /\ sample = [t \in Threads |-> None]
    /\ diff = [t \in Threads |-> None]
    /\ endTime = [t \in Threads |-> None]
    /\ duration = [t \in Threads |-> None]
    /\ timeStr = [t \in Threads |-> None]
    /\ ret = [t \in Threads |-> None]
    /\ snap = [t \in Threads |-> None]
    /\ lastStart = None
    /\ seen = NoneSeen
    /\ prev = [t \in Threads |-> None]

\* The object is constructed at some reading of the clock.
Init == \E now \in {0, 700} : InitAt(now) /\ call = NoCall

\* The object is constructed late, one step of the clock before MaxClock.
InitLate == \E now \in {MaxClock - 700} : InitAt(now) /\ call = NoCall

(***************************************************************************)
(* The steady clock moves forward on its own.                              *)
(***************************************************************************)
Tick ==
    /\ \E step \in ClockSteps :
          /\ clock + step <= MaxClock
          /\ clock' = clock + step
    /\ UNCHANGED <<startTime_, endTime_, ongoing_, mutex_, constructed, pc,
                   caller, per, sample, diff, endTime, duration, timeStr, ret,
                   snap, lastStart, seen, prev, call>>

(***************************************************************************)
(* Calls.  One thread constructs the object (the constructor body is a     *)
(* call of start()); afterwards any idle thread may call any member.       *)
(***************************************************************************)
Enter(t, entry, P, from) ==
    /\ pc[t] = "idle"
    /\ Goto(t, entry)
    /\ per' = [per EXCEPT ![t] = P]
    /\ caller' = [caller EXCEPT ![t] = from]
    /\ UNCHANGED <<clock, startTime_, endTime_, ongoing_, mutex_, constructed,
                   sample, diff, endTime, duration, timeStr, ret, snap,
                   lastStart, seen, prev, call>>

ProcessTiming(t) ==
    /\ ~constructed
    /\ \A u \in Threads : pc[u] = "idle"
    /\ Enter(t, "start_152", None, "ctor")

CallStart(t) == constructed /\ Enter(t, "start_152", None, "client")

CallStop(t) == constructed /\ Enter(t, "stop_163", None, "client")

CallGetStartTime(t) ==
    constructed /\ Enter(t, "getStartTime_173", None, "client")

CallGetEndTime(t) == constructed /\ Enter(t, "getEndTime_182", None, "client")

CallIsRunning(t) == constructed /\ Enter(t, "isRunning_194", None, "client")

CallElapsed(t) ==
    /\ constructed
    /\ \E P \in ElapsedPeriods : Enter(t, "elapsed_204", Some(P), "client")

CallToString(t) ==
    /\ constructed
    /\ \E P \in ToStringPeriods :
          Enter(t, "to_string_219", Some(P), "client")

(***************************************************************************)
(* std::lock_guard<std::recursive_mutex> lock(_mutex), the first statement *)
(* of every member function.                                               *)
(***************************************************************************)
Lock(t) ==
    /\ pc[t] \in LockPcs
    /\ mutex_lock(t)
    /\ Goto(t, AfterLock(pc[t]))
    /\ snap' = IF mutex_.count = 0 THEN [snap EXCEPT ![t] = Some(Triple)]
                                  ELSE snap
    /\ UNCHANGED <<clock, startTime_, endTime_, ongoing_, constructed, caller,
                   per, sample, diff, endTime, duration, timeStr, ret,
                   lastStart, seen, prev, call>>

(***************************************************************************)
(* start() (lines 150-156).                                                *)
(***************************************************************************)
Restarted(pv) ==
    [u \in Threads |->
        IF pv[u] = None THEN None
        ELSE Some([Val(pv[u]) EXCEPT !.restarted = TRUE])]

start_153(t) ==
    /\ pc[t] = "start_153"
    /\ sample' = [sample EXCEPT ![t] = Some(clock)]
    /\ startTime_' = clock
    /\ Goto(t, "start_154")
    /\ lastStart' = Some(clock)
    /\ seen' = NoneSeen
    /\ prev' = Restarted(prev)
    /\ UNCHANGED <<clock, endTime_, ongoing_, mutex_, constructed, caller, per,
                   diff, endTime, duration, timeStr, ret, snap, call>>

\* start() that leaves _endTime as it was.
start_154_skipped(t) ==
    /\ pc[t] = "start_154"
    /\ Goto(t, "start_155")
    /\ seen' = NoneSeen
    /\ UNCHANGED <<clock, startTime_, endTime_, ongoing_, mutex_, constructed,
                   caller, per, sample, diff, endTime, duration, timeStr, ret,
                   snap, lastStart, prev, call>>

start_154(t) ==
    /\ pc[t] = "start_154"
    /\ endTime_' = startTime_
    /\ Goto(t, "start_155")
    /\ seen' = NoneSeen
    /\ UNCHANGED <<clock, startTime_, ongoing_, mutex_, constructed, caller,
                   per, sample, diff, endTime, duration, timeStr, ret, snap,
                   lastStart, prev, call>>

\* start() that does not set _ongoing.
start_155_skipped(t) ==
    /\ pc[t] = "start_155"
    /\ Goto(t, "start_156")
    /\ seen' = NoneSeen
    /\ UNCHANGED <<clock, startTime_, endTime_, ongoing_, mutex_, constructed,
                   caller, per, sample, diff, endTime, duration, timeStr, ret,
                   snap, lastStart, prev, call>>

start_155(t) ==
    /\ pc[t] = "start_155"
    /\ ongoing_' = TRUE
    /\ Goto(t, "start_156")
    /\ seen' = NoneSeen
    /\ UNCHANGED <<clock, startTime_, endTime_, mutex_, constructed, caller,
                   per, sample, diff, endTime, duration, timeStr, ret, snap,
                   lastStart, prev, call>>

(***************************************************************************)
(* stop() (lines 161-166).                                                 *)
(***************************************************************************)
\* stop() that records the end time only when the stopwatch is Running.
stop_164_once(t) ==
    /\ pc[t] = "stop_164"
    /\ sample' = [sample EXCEPT ![t] = Some(clock)]
    /\ endTime_' = IF ongoing_ THEN clock ELSE endTime_
    /\ Goto(t, "stop_165")
    /\ seen' = NoneSeen
    /\ UNCHANGED <<clock, startTime_, ongoing_, mutex_, constructed, caller,
                   per, diff, endTime, duration, timeStr, ret, snap,
                   lastStart, prev, call>>

stop_164(t) ==
    /\ pc[t] = "stop_164"
    /\ sample' = [sample EXCEPT ![t] = Some(clock)]
    /\ endTime_' = clock
    /\ Goto(t, "stop_165")
    /\ seen' = NoneSeen
    /\ UNCHANGED <<clock, startTime_, ongoing_, mutex_, constructed, caller,
                   per, diff, endTime, duration, timeStr, ret, snap,
                   lastStart, prev, call>>

stop_165(t) ==
    /\ pc[t] = "stop_165"
    /\ ongoing_' = FALSE
    /\ Goto(t, "stop_166")
    /\ seen' = NoneSeen
    /\ prev' = [u \in Threads |-> None]
    /\ UNCHANGED <<clock, startTime_, endTime_, mutex_, constructed, caller,
                   per, sample, diff, endTime, duration, timeStr, ret, snap,
                   lastStart, call>>

(***************************************************************************)
(* getStartTime() (lines 171-175).                                         *)
(***************************************************************************)
getStartTime_174(t) ==
    /\ pc[t] = "getStartTime_174"
    /\ ret' = [ret EXCEPT ![t] = Some(startTime_)]
    /\ Goto(t, "getStartTime_175")
    /\ UNCHANGED <<clock, startTime_, endTime_, ongoing_, mutex_, constructed,
                   caller, per, sample, diff, endTime, duration, timeStr, snap,
                   lastStart, seen, prev, call>>

(***************************************************************************)
(* getEndTime() (lines 180-187).                                           *)
(***************************************************************************)
getEndTime_183(t) ==
    /\ pc[t] = "getEndTime_183"
    /\ endTime' = [endTime EXCEPT ![t] = Some(endTime_)]
    /\ Goto(t, "getEndTime_184")
    /\ UNCHANGED <<clock, startTime_, endTime_, ongoing_, mutex_, constructed,
                   caller, per, sample, diff, duration, timeStr, ret, snap,
                   lastStart, seen, prev, call>>

\* getEndTime() that never takes a fresh sample.
getEndTime_184_never(t) ==
    /\ pc[t] = "getEndTime_184"
    /\ Goto(t, "getEndTime_186")
    /\ UNCHANGED <<clock, startTime_, endTime_, ongoing_, mutex_, constructed,
                   caller, per, sample, diff, endTime, duration, timeStr, ret,
                   snap, lastStart, seen, prev, call>>

getEndTime_184(t) ==
    /\ pc[t] = "getEndTime_184"
    /\ Goto(t, IF ongoing_ THEN "getEndTime_185" ELSE "getEndTime_186")
    /\ UNCHANGED <<clock, startTime_, endTime_, ongoing_, mutex_, constructed,
                   caller, per, sample, diff, endTime, duration, timeStr, ret,
                   snap, lastStart, seen, prev, call>>

\* getEndTime() that stores the sample it takes in _endTime.
getEndTime_185_store(t) ==
    /\ pc[t] = "getEndTime_185"
    /\ sample' = [sample EXCEPT ![t] = Some(clock)]
    /\ endTime' = [endTime EXCEPT ![t] = Some(clock)]
    /\ endTime_' = clock
    /\ Goto(t, "getEndTime_186")
    /\ UNCHANGED <<clock, startTime_, ongoing_, mutex_, constructed, caller,
                   per, diff, duration, timeStr, ret, snap, lastStart, seen,
                   prev, call>>

getEndTime_185(t) ==
    /\ pc[t] = "getEndTime_185"
    /\ sample' = [sample EXCEPT ![t] = Some(clock)]
    /\ endTime' = [endTime EXCEPT ![t] = Some(clock)]
    /\ Goto(t, "getEndTime_186")
    /\ UNCHANGED <<clock, startTime_, endTime_, ongoing_, mutex_, constructed,
                   caller, per, diff, duration, timeStr, ret, snap, lastStart,
                   seen, prev, call>>

getEndTime_186(t) ==
    /\ pc[t] = "getEndTime_186"
    /\ ret' = [ret EXCEPT ![t] = endTime[t]]
    /\ Goto(t, "getEndTime_187")
    /\ UNCHANGED <<clock, startTime_, endTime_, ongoing_, mutex_, constructed,
                   caller, per, sample, diff, endTime, duration, timeStr, snap,
                   lastStart, seen, prev, call>>

(***************************************************************************)
(* isRunning() (lines 192-196).                                            *)
(***************************************************************************)
isRunning_195(t) ==
    /\ pc[t] = "isRunning_195"
    /\ ret' = [ret EXCEPT ![t] = Some(ongoing_)]
    /\ Goto(t, "isRunning_196")
    /\ UNCHANGED <<clock, startTime_, endTime_, ongoing_, mutex_, constructed,
                   caller, per, sample, diff, endTime, duration, timeStr, snap,
                   lastStart, seen, prev, call>>

(***************************************************************************)
(* elapsed<Rep,Period>() (lines 201-211).                                  *)
(***************************************************************************)
elapsed_206(t) ==
    /\ pc[t] = "elapsed_206"
    /\ Goto(t, IF ongoing_ THEN "elapsed_207" ELSE "elapsed_209")
    /\ UNCHANGED <<clock, startTime_, endTime_, ongoing_, mutex_, constructed,
                   caller, per, sample, diff, endTime, duration, timeStr, ret,
                   snap, lastStart, seen, prev, call>>

\* elapsed() that forgets the duration_cast to duration<Rep,Period>.
elapsed_207_uncast(t) ==
    /\ pc[t] = "elapsed_207"
    /\ sample' = [sample EXCEPT ![t] = Some(clock)]
    /\ diff' = [diff EXCEPT ![t] = Some(clock - startTime_)]
    /\ Goto(t, "elapsed_210")
    /\ UNCHANGED <<clock, startTime_, endTime_, ongoing_, mutex_, constructed,
                   caller, per, endTime, duration, timeStr, ret, snap,
                   lastStart, seen, prev, call>>

\* elapsed() that subtracts the wrong way round.
elapsed_207_reversed(t) ==
    /\ pc[t] = "elapsed_207"
    /\ sample' = [sample EXCEPT ![t] = Some(clock)]
    /\ diff' = [diff EXCEPT
                  ![t] = Some(DurationCast(startTime_ - clock, clock_period,
                                           Val(per[t])))]
    /\ Goto(t, "elapsed_210")
    /\ UNCHANGED <<clock, startTime_, endTime_, ongoing_, mutex_, constructed,
                   caller, per, endTime, duration, timeStr, ret, snap,
                   lastStart, seen, prev, call>>

elapsed_207(t) ==
    /\ pc[t] = "elapsed_207"
    /\ sample' = [sample EXCEPT ![t] = Some(clock)]
    /\ diff' = [diff EXCEPT
                  ![t] = Some(DurationCast(clock - startTime_, clock_period,
                                           Val(per[t])))]
    /\ Goto(t, "elapsed_210")
    /\ UNCHANGED <<clock, startTime_, endTime_, ongoing_, mutex_, constructed,
                   caller, per, endTime, duration, timeStr, ret, snap,
                   lastStart, seen, prev, call>>

\* elapsed() that reads the clock also when the stopwatch is Stopped.
elapsed_209_resample(t) ==
    /\ pc[t] = "elapsed_209"
    /\ diff' = [diff EXCEPT
                  ![t] = Some(DurationCast(clock - startTime_, clock_period,
                                           Val(per[t])))]
    /\ Goto(t, "elapsed_210")
    /\ UNCHANGED <<clock, startTime_, endTime_, ongoing_, mutex_, constructed,
                   caller, per, sample, endTime, duration, timeStr, ret, snap,
                   lastStart, seen, prev, call>>

elapsed_209(t) ==
    /\ pc[t] = "elapsed_209"
    /\ diff' = [diff EXCEPT
                  ![t] = Some(DurationCast(endTime_ - startTime_, clock_period,
                                           Val(per[t])))]
    /\ Goto(t, "elapsed_210")
    /\ UNCHANGED <<clock, startTime_, endTime_, ongoing_, mutex_, constructed,
                   caller, per, sample, endTime, duration, timeStr, ret, snap,
                   lastStart, seen, prev, call>>

elapsed_210(t) ==
    /\ pc[t] = "elapsed_210"
    /\ ret' = [ret EXCEPT ![t] = diff[t]]
    /\ Goto(t, "elapsed_211")
    /\ UNCHANGED <<clock, startTime_, endTime_, ongoing_, mutex_, constructed,
                   caller, per, sample, diff, endTime, duration, timeStr, snap,
                   lastStart, seen, prev, call>>

(***************************************************************************)
(* to_string<Rep,Period>() (lines 216-224).                                *)
(***************************************************************************)
\* line 220: the call elapsed<Rep,Period>()
to_string_220(t) ==
    /\ pc[t] = "to_string_220"
    /\ caller' = [caller EXCEPT ![t] = "to_string"]
    /\ Goto(t, "elapsed_204")
    /\ UNCHANGED <<clock, startTime_, endTime_, ongoing_, mutex_, constructed,
                   per, sample, diff, endTime, duration, timeStr, ret, snap,
                   lastStart, seen, prev, call>>

\* lines 221-222: TimeToString<Rep,Period>(duration, timeStr)
to_string_222(t) ==
    /\ pc[t] = "to_string_222"
    /\ timeStr' = [timeStr EXCEPT
                     ![t] = Some(TimeToString(Wide(Val(duration[t])),
                                              Val(per[t])))]
    /\ Goto(t, "to_string_223")
    /\ UNCHANGED <<clock, startTime_, endTime_, ongoing_, mutex_, constructed,
                   caller, per, sample, diff, endTime, duration, ret, snap,
                   lastStart, seen, prev, call>>

to_string_223(t) ==
    /\ pc[t] = "to_string_223"
    /\ ret' = [ret EXCEPT ![t] = timeStr[t]]
    /\ Goto(t, "to_string_224")
    /\ UNCHANGED <<clock, startTime_, endTime_, ongoing_, mutex_, constructed,
                   caller, per, sample, diff, endTime, duration, timeStr, snap,
                   lastStart, seen, prev, call>>

(***************************************************************************)
(* The closing brace of a member function: the lock_guard is destroyed     *)
(* and control goes back to the caller with the returned value.            *)
(***************************************************************************)
ClearLocals(t) ==
    /\ per' = [per EXCEPT ![t] = None]
    /\ sample' = [sample EXCEPT ![t] = None]
    /\ diff' = [diff EXCEPT ![t] = None]
    /\ endTime' = [endTime EXCEPT ![t] = None]
    /\ duration' = [duration EXCEPT ![t] = None]
    /\ timeStr' = [timeStr EXCEPT ![t] = None]
    /\ ret' = [ret EXCEPT ![t] = None]

\* What the history keeps of a value handed to the client.
Remember(t) ==
    /\ seen' =
         IF ongoing_ THEN seen
         ELSE CASE pc[t] = "getStartTime_175" ->
                     [seen EXCEPT !.startTime = ret[t]]
                [] pc[t] = "getEndTime_187" ->
                     [seen EXCEPT !.endTime = ret[t]]
                [] pc[t] = "elapsed_211" ->
                     [seen EXCEPT !.elapsed[Val(per[t])] = ret[t]]
                [] OTHER -> seen
    /\ prev' =
         IF pc[t] = "elapsed_211"
         THEN [prev EXCEPT
                 ![t] = IF ongoing_
                        THEN Some([per |-> Val(per[t]),
                                   val |-> Val(ret[t]),
                                   restarted |-> FALSE])
                        ELSE None]
         ELSE prev

\* Return to the client code of thread t.
Return(t) ==
    /\ pc[t] \in UnlockPcs
    /\ caller[t] = "client"
    /\ mutex_unlock(t)
    /\ Goto(t, "idle")
    /\ ClearLocals(t)
    /\ snap' = [snap EXCEPT ![t] = None]
    /\ Remember(t)
    /\ UNCHANGED <<clock, startTime_, endTime_, ongoing_, constructed, caller,
                   lastStart, call>>

\* elapsed() returns into line 220 of to_string(): duration = elapsed().
ReturnToString(t) ==
    /\ pc[t] = "elapsed_211"
    /\ caller[t] = "to_string"
    /\ mutex_unlock(t)
    /\ duration' = [duration EXCEPT ![t] = ret[t]]
    /\ ret' = [ret EXCEPT ![t] = None]
    /\ caller' = [caller EXCEPT ![t] = "client"]
    /\ Goto(t, "to_string_222")
    /\ UNCHANGED <<clock, startTime_, endTime_, ongoing_, constructed, per,
                   sample, diff, endTime, timeStr, snap, lastStart, seen, prev, call>>

\* start() returns into the constructor, which returns (line 145).
ReturnConstructor(t) ==
    /\ pc[t] = "start_156"
    /\ caller[t] = "ctor"
    /\ mutex_unlock(t)
    /\ constructed' = TRUE
    /\ caller' = [caller EXCEPT ![t] = "client"]
    /\ Goto(t, "idle")
    /\ ClearLocals(t)
    /\ snap' = [snap EXCEPT ![t] = None]
    /\ UNCHANGED <<clock, startTime_, endTime_, ongoing_, lastStart, seen,
                   prev, call>>

(***************************************************************************)
(* Specification.                                                          *)
(***************************************************************************)
Body(t) ==
    \/ start_153(t) \/ start_154(t) \/ start_155(t)
    \/ stop_164(t) \/ stop_165(t)
    \/ getStartTime_174(t)
    \/ getEndTime_183(t) \/ getEndTime_184(t) \/ getEndTime_185(t)
    \/ getEndTime_186(t)
    \/ isRunning_195(t)
    \/ elapsed_206(t) \/ elapsed_207(t) \/ elapsed_209(t) \/ elapsed_210(t)
    \/ to_string_220(t) \/ to_string_222(t) \/ to_string_223(t)
    \/ Return(t) \/ ReturnToString(t) \/ ReturnConstructor(t)

Call(t) ==
    \/ ProcessTiming(t)
    \/ CallStart(t) \/ CallStop(t) \/ CallGetStartTime(t) \/ CallGetEndTime(t)
    \/ CallIsRunning(t) \/ CallElapsed(t) \/ CallToString(t)

Next ==
    \/ Tick
    \/ \E t \in Threads : Call(t) \/ Lock(t) \/ Body(t)

Spec == Init /\ [][Next]_vars

\* Every thread that can take a step eventually takes one, and a thread
\* waiting for the mutex gets it if it is free again and again.  The clock and
\* the clients are under no obligation: no thread has to call anything.
\* Which thread may run next never depends on the value of the clock, so the
\* schedules are followed from a late construction.
FairSpec ==
    /\ InitLate /\ [][Next]_vars
    /\ \A t \in Threads : WF_vars(Body(t)) /\ SF_vars(Lock(t))

(***************************************************************************)
(* The static functions on their own.  SplitTimeElements,                  *)
(* TimeElementsToString and TimeToString are public static members and the *)
(* ratio comparisons are namespace-level templates: a client calls them    *)
(* with arguments of its choice and no ProcessTiming object is involved.   *)
(***************************************************************************)
MaxDays == 12
MaxField == 5
MaxTerm == 4

\* How many of each unit make one of the next coarser unit (1 for days).
UnitRadix == <<1, 24, 60, 60, 1000, 1000, 1000>>

UnitOf(P) == CHOOSE i \in 1..7 : UnitPeriods[i] = P

\* The durations given to the functions.  At each unit no finer than the
\* Period the duration holds no such unit, one, or as many as fit the next
\* coarser unit (MaxDays for the days); the whole may be negated.
UnitCounts(i) == IF i = 1 THEN {0, 1, MaxDays} ELSE {0, 1, UnitRadix[i] - 1}

RECURSIVE Composed(_)
Composed(k) ==
    IF k = 0 THEN {Wide(0)}
    ELSE {WideAdd(WideTimes(v, UnitRadix[k]), Wide(x)) :
              v \in Composed(k - 1), x \in UnitCounts(k)}

Durations(P) ==
    LET whole == Composed(UnitOf(P))
    IN  whole \cup {WideNeg(v) : v \in whole}

\* 90061500250125, which no 32-bit integer holds.
Scenario4 == WideAdd(WideTimes(Wide(90061), 1000000000), Wide(500250125))

Scenarios ==
    {[duration |-> Wide(3661), Period |-> seconds_period],
     [duration |-> Wide(90000), Period |-> milli],
     [duration |-> Scenario4, Period |-> nano]}

DurationArgs ==
    Scenarios \cup
    UNION {{[duration |-> w, Period |-> UnitPeriods[i]] :
                w \in Durations(UnitPeriods[i])} : i \in 1..7}

\* One hour, no minute, five seconds.
ActivationExample ==
    [d |-> 0, h |-> 1, m |-> 0, s |-> 5, ms |-> 0, us |-> 0, ns |-> 0]

\* TimeElements a client fills in itself: any sign at any unit.
TimeElementsArgs ==
    {[timeElements |-> ActivationExample, Period |-> seconds_period]} \cup
    {[timeElements |-> te, Period |-> UnitPeriods[i]] :
         te \in [{UnitFields[u] : u \in 1..7} -> {-1, 0, MaxField}],
         i \in 1..7}

\* Numerators and denominators of the two std::ratio arguments.
Terms == (1..MaxTerm) \cup {60, 1000, 3600}

RatioArgs == [n1 : Terms, d1 : Terms, n2 : Terms, d2 : Terms]

StaticInit ==
    /\ InitAt(0)
    /\ startTime_ = 0
    /\ endTime_ = 0
    /\ ongoing_ = FALSE
    /\ \/ \E a \in DurationArgs :
             call = [fn |-> "SplitTimeElements", arg |-> a, ret |-> None]
       \/ \E a \in TimeElementsArgs :
             call = [fn |-> "TimeElementsToString", arg |-> a, ret |-> None]
       \/ \E a \in DurationArgs :
             call = [fn |-> "TimeToString", arg |-> a, ret |-> None]
       \/ \E a \in RatioArgs :
             call = [fn |-> "ratio", arg |-> a, ret |-> None]

CallSplitTimeElements ==
    /\ call.fn = "SplitTimeElements"
    /\ call.ret = None
    /\ call' = [call EXCEPT
                   !.ret = Some(SplitTimeElements(call.arg.duration,
                                                  call.arg.Period))]
    /\ UNCHANGED stopwatch

CallTimeElementsToString ==
    /\ call.fn = "TimeElementsToString"
    /\ call.ret = None
    /\ call' = [call EXCEPT
                   !.ret = Some(TimeElementsToString(call.arg.timeElements,
                                                     call.arg.Period))]
    /\ UNCHANGED stopwatch

CallTimeToString ==
    /\ call.fn = "TimeToString"
    /\ call.ret = None
    /\ call' = [call EXCEPT
                   !.ret = Some(TimeToString(call.arg.duration,
                                             call.arg.Period))]
    /\ UNCHANGED stopwatch

\* The ::value of each of the six comparisons of lines 12-30.
RatioValues(R1, R2) ==
    [equal         |-> ratio_equal(R1, R2),
     not_equal     |-> ratio_not_equal(R1, R2),
     less          |-> ratio_less(R1, R2),
     less_equal    |-> ratio_less_equal(R1, R2),
     greater       |-> ratio_greater(R1, R2),
     greater_equal |-> ratio_greater_equal(R1, R2)]

CallRatio ==
    /\ call.fn = "ratio"
    /\ call.ret = None
    /\ call' = [call EXCEPT
                   !.ret = Some(RatioValues(ratio(call.arg.n1, call.arg.d1),
                                            ratio(call.arg.n2, call.arg.d2)))]
    /\ UNCHANGED stopwatch

StaticNext ==
    \/ CallSplitTimeElements
    \/ CallTimeElementsToString
    \/ CallTimeToString
    \/ CallRatio

StaticSpec == StaticInit /\ [][StaticNext]_vars

(***************************************************************************)
(* Vocabulary of the properties.                                           *)
(***************************************************************************)
\* Steady-clock ticks in one tick of Period P (P no finer than the clock).
UnitTicks(P) == (P.num * clock_period.den) \div (P.den * clock_period.num)

\* q is the clock duration x expressed in ticks of P, truncated toward zero.
TruncatedTo(q, x, P) ==
    LET k == UnitTicks(P)
    IN  IF x >= 0
        THEN q >= 0 /\ q * k <= x /\ x < (q + 1) * k
        ELSE q <= 0 /\ q * k >= x /\ x > (q - 1) * k

\* Thread t is inside the body of a member function: past its lock_guard,
\* not yet returned to its client.
InBody(t) ==
    /\ pc[t] # "idle"
    /\ ~(pc[t] \in LockPcs /\ caller[t] # "to_string")

MutatorPcs == {"start_153", "start_154", "start_155", "stop_164", "stop_165"}

\* Thread t is inside the body of one of the five query functions.
InQuery(t) ==
    /\ InBody(t)
    /\ pc[t] \notin MutatorPcs \cup {"start_156", "stop_166"}

\* The duration elapsed<Rep,P>() computes from the members tr and the clock
\* sample smp.
ElapsedOf(tr, smp, P) ==
    IF tr.o THEN DurationCast(Val(smp) - tr.s, clock_period, P)
    ELSE DurationCast(tr.e - tr.s, clock_period, P)

(***************************************************************************)
(* C1: when elapsed() returns, its value is the clock value sampled in     *)
(* this call minus _startTime if the stopwatch is Running, and _endTime    *)
(* minus _startTime if it is Stopped, truncated toward zero to Period.     *)
(***************************************************************************)
C1_ElapsedValue ==
    \A t \in Threads :
        pc[t] = "elapsed_211" =>
            IF ongoing_
            THEN /\ sample[t] # None
                 /\ TruncatedTo(Val(ret[t]), Val(sample[t]) - startTime_,
                                Val(per[t]))
            ELSE TruncatedTo(Val(ret[t]), endTime_ - startTime_, Val(per[t]))

\* A Running stopwatch read 1500 ns after its start at microsecond resolution.
C1_Witness ==
    \E t \in Threads :
        /\ pc[t] = "elapsed_211"
        /\ ongoing_
        /\ per[t] = Some(micro)
        /\ Val(sample[t]) - startTime_ = 1500
        /\ ret[t] = Some(1)

(***************************************************************************)
(* C2: on a constructed stopwatch _startTime is never later than _endTime  *)
(* (outside the two stores of start(), which no other thread can observe), *)
(* and elapsed() never returns a negative duration.                        *)
(***************************************************************************)
C2_NeverNegative ==
    /\ (constructed /\ \A t \in Threads : pc[t] # "start_154")
           => startTime_ <= endTime_
    /\ \A t \in Threads : pc[t] = "elapsed_211" => Val(ret[t]) >= 0

\* A stopwatch that was restarted and stopped again, read while Stopped.
C2_Witness ==
    \E t \in Threads :
        /\ pc[t] = "elapsed_211"
        /\ ~ongoing_
        /\ startTime_ >= 700
        /\ startTime_ < endTime_
        /\ Val(ret[t]) > 0

(***************************************************************************)
(* C3: at the end of start(), whatever the state it was called in, the     *)
(* stopwatch is Running and _startTime = _endTime = the clock value this   *)
(* call sampled; the constructor's start() gives every constructed object  *)
(* that state.                                                             *)
(***************************************************************************)
C3_StartResets ==
    /\ \A t \in Threads :
           pc[t] = "start_156" =>
               /\ ongoing_
               /\ sample[t] # None
               /\ startTime_ = Val(sample[t])
               /\ endTime_ = Val(sample[t])
    /\ constructed => lastStart # None

\* start() called on a Stopped stopwatch.
C3_Witness ==
    \E t \in Threads :
        /\ pc[t] = "start_156"
        /\ caller[t] = "client"
        /\ ~Val(snap[t]).o
        /\ Val(snap[t]).s < Val(snap[t]).e
        /\ startTime_ > Val(snap[t]).e

(***************************************************************************)
(* C4: at the end of stop(), whatever the state it was called in, _endTime *)
(* is the clock value this call sampled, the stopwatch is Stopped and      *)
(* _startTime is what it was when stop() was entered.                      *)
(***************************************************************************)
C4_StopStores ==
    \A t \in Threads :
        pc[t] = "stop_166" =>
            /\ sample[t] # None
            /\ endTime_ = Val(sample[t])
            /\ ~ongoing_
            /\ startTime_ = Val(snap[t]).s

\* A second stop() on a Stopped stopwatch that moved _endTime forward.
C4_Witness ==
    \E t \in Threads :
        /\ pc[t] = "stop_166"
        /\ ~Val(snap[t]).o
        /\ endTime_ > Val(snap[t]).e

(***************************************************************************)
(* C5: on a Stopped stopwatch elapsed() and getEndTime() return what they  *)
(* returned before, as long as no start() or stop() has stored anything    *)
(* since; and elapsed() is getEndTime() minus getStartTime() (truncated to *)
(* its Period).                                                            *)
(***************************************************************************)
C5_StoppedRepeatable ==
    \A t \in Threads :
        ~ongoing_ =>
            /\ pc[t] = "elapsed_211" =>
                  /\ seen.elapsed[Val(per[t])] # None =>
                         ret[t] = seen.elapsed[Val(per[t])]
                  /\ (seen.endTime # None /\ seen.startTime # None) =>
                         TruncatedTo(Val(ret[t]),
                                     Val(seen.endTime) - Val(seen.startTime),
                                     Val(per[t]))
            /\ pc[t] = "getEndTime_187" =>
                  (seen.endTime # None => ret[t] = seen.endTime)

\* elapsed() called again on a Stopped stopwatch after the clock moved on.
C5_Witness ==
    \E t \in Threads :
        /\ pc[t] = "elapsed_211"
        /\ ~ongoing_
        /\ seen.elapsed[Val(per[t])] # None
        /\ seen.endTime # None
        /\ seen.startTime # None
        /\ Val(ret[t]) > 0
        /\ clock > endTime_

(***************************************************************************)
(* C6 as stated: while the stopwatch is Running, an elapsed() call of a    *)
(* thread returns no less than that thread's previous elapsed() call (at   *)
(* the same Period) did.                                                   *)
(***************************************************************************)
C6_Original ==
    \A t \in Threads :
        (/\ pc[t] = "elapsed_211"
         /\ caller[t] = "client"
         /\ ongoing_
         /\ prev[t] # None
         /\ Val(prev[t]).per = Val(per[t]))
            => Val(ret[t]) >= Val(prev[t]).val

(***************************************************************************)
(* C6 amended: while the stopwatch is Running and no start() has been      *)
(* executed between the two calls, an elapsed() call of a thread returns   *)
(* no less than that thread's previous elapsed() call (at the same Period) *)
(* did.                                                                    *)
(***************************************************************************)
C6_NonDecreasing ==
    \A t \in Threads :
        (/\ pc[t] = "elapsed_211"
         /\ caller[t] = "client"
         /\ ongoing_
         /\ prev[t] # None
         /\ Val(prev[t]).per = Val(per[t])
         /\ ~Val(prev[t]).restarted)
            => Val(ret[t]) >= Val(prev[t]).val

\* A second elapsed() of the same thread that returned more than the first.
C6_Witness ==
    \E t \in Threads :
        /\ pc[t] = "elapsed_211"
        /\ caller[t] = "client"
        /\ ongoing_
        /\ prev[t] # None
        /\ Val(prev[t]).per = Val(per[t])
        /\ ~Val(prev[t]).restarted
        /\ Val(ret[t]) > Val(prev[t]).val

(***************************************************************************)
(* C7: getEndTime() returns _endTime when Stopped and the clock value it   *)
(* sampled in this call when Running; getStartTime() returns the clock     *)
(* value the latest start() sampled.                                       *)
(***************************************************************************)
C7_Getters ==
    \A t \in Threads :
        /\ pc[t] = "getEndTime_187" =>
               ret[t] = IF ongoing_ THEN sample[t] ELSE Some(endTime_)
        /\ pc[t] = "getStartTime_175" => ret[t] = lastStart

\* getEndTime() on a Running stopwatch returning later than the stored value.
C7_Witness ==
    \E t \in Threads :
        /\ pc[t] = "getEndTime_187"
        /\ ongoing_
        /\ Val(ret[t]) > endTime_
        /\ endTime_ = startTime_

(***************************************************************************)
(* C8: at most one thread is inside a member function body; while a thread *)
(* is inside a query the members are what they were when it took the lock; *)
(* and what elapsed() and to_string() return is computed from that one     *)
(* triple.                                                                 *)
(***************************************************************************)
C8_Serialized ==
    /\ Cardinality({t \in Threads : InBody(t)}) <= 1
    /\ \A t \in Threads :
           /\ InQuery(t) => snap[t] = Some(Triple)
           /\ pc[t] = "elapsed_211" =>
                  Val(ret[t]) = ElapsedOf(Val(snap[t]), sample[t], Val(per[t]))
           /\ pc[t] = "to_string_224" =>
                  Val(ret[t]) =
                      TimeToString(Wide(ElapsedOf(Val(snap[t]), sample[t],
                                                  Val(per[t]))),
                                   Val(per[t]))

\* to_string() about to return a non-empty string while the other thread
\* waits at the lock of start() or stop().
C8_Witness ==
    \E t \in Threads :
        /\ pc[t] = "to_string_224"
        /\ ret[t] # Some("")
        /\ \E u \in Threads \ {t} : pc[u] \in {"start_152", "stop_163"}

(***************************************************************************)
(* C9: the lock_guard of elapsed() called from to_string() finds the mutex *)
(* held by its own thread and takes it without waiting; back in            *)
(* to_string() the thread holds the mutex once, as before the call; the    *)
(* mutex is free whenever no thread is in a member function; and every     *)
(* call that has started returns.                                          *)
(***************************************************************************)
C9_Reentrant ==
    /\ [](\A t \in Threads :
             /\ (pc[t] = "elapsed_204" /\ caller[t] = "to_string") =>
                    (mutex_.owner = t /\ mutex_.count = 1 /\ ENABLED Lock(t))
             /\ pc[t] = "to_string_222" =>
                    (mutex_.owner = t /\ mutex_.count = 1)
             /\ pc[t] = "idle" => mutex_.owner # t)
    /\ []((\A t \in Threads : pc[t] = "idle") =>
             (mutex_.owner = NoThread /\ mutex_.count = 0))
    /\ \A t \in Threads : (pc[t] # "idle") ~> (pc[t] = "idle")

\* Back in to_string() after the nested elapsed(), with another thread waiting.
C9_Witness ==
    \E t \in Threads :
        /\ pc[t] = "to_string_222"
        /\ mutex_.count = 1
        /\ \E u \in Threads \ {t} : pc[u] \in LockPcs

(***************************************************************************)
(* C10: no step of a query function changes _startTime, _endTime or        *)
(* _ongoing; the members change only in steps of start() and stop(), and   *)
(* _startTime only in line 153 of start().                                 *)
(***************************************************************************)
C10_Frame ==
    [][/\ \A t \in Threads :
              (InQuery(t) /\ pc'[t] # pc[t]) => members' = members
       /\ members' # members =>
              \E t \in Threads : pc[t] \in MutatorPcs /\ pc'[t] # pc[t]
       /\ startTime_' # startTime_ =>
              \E t \in Threads : pc[t] = "start_153" /\ pc'[t] = "start_154"
      ]_vars

\* elapsed() on a Running stopwatch returned a sample later than the members.
C10_Witness ==
    \E t \in Threads :
        /\ pc[t] = "elapsed_211"
        /\ ongoing_
        /\ Val(sample[t]) > endTime_
        /\ Val(sample[t]) > startTime_

(***************************************************************************)
(* The decomposition and the rendering, on the calls of the static         *)
(* functions.                                                              *)
(***************************************************************************)
Returned(fn) == call.fn = fn /\ call.ret # None

\* The nanoseconds in `w` ticks of the unit Period P: each unit is a whole
\* number of the next finer one, down to the nanoseconds.
ToNanoseconds(w, P) ==
    LET down[i \in 1..8, v \in Int \X Int] ==
            IF i = 8 THEN v ELSE down[i + 1, WideTimes(v, UnitRadix[i])]
    IN  down[UnitOf(P) + 1, w]

\* days*86400s + hours*3600s + minutes*60s + seconds + ms + us + ns, in
\* nanoseconds: 86400 = 24*60*60 and 3600 = 60*60, so the sum is carried
\* from the days down, one unit at a time.  Through(te, n) stops after the
\* n coarsest units and gives their part of the sum.
Through(te, n) ==
    LET sum[i \in 1..8, v \in Int \X Int] ==
            IF i = 8 THEN v
            ELSE sum[i + 1, WideAdd(WideTimes(v, UnitRadix[i]),
                                    Wide(IF i <= n THEN te[UnitFields[i]]
                                         ELSE 0))]
    IN  sum[1, Wide(0)]

Reassembled(te) == Through(te, 7)

\* C11: for every non-negative duration d, the seven fields SplitTimeElements
\* returns, each multiplied by the length of its unit and summed, equal d
\* expressed in nanoseconds.
C11_Reassembly ==
    (Returned("SplitTimeElements") /\ call.arg.duration[1] >= 0)
        => Reassembled(Val(call.ret))
               = ToNanoseconds(call.arg.duration, call.arg.Period)

\* A split of the 90061500250125 ns has returned, with a day in it.
C11_Witness ==
    /\ Returned("SplitTimeElements")
    /\ call.arg.duration = Scenario4
    /\ call.arg.Period = nano
    /\ Val(call.ret).d = 1
    /\ Val(call.ret).ns = 125

\* Every field but the days, as a count of its unit within the next coarser
\* unit: hours in [0,24), minutes and seconds in [0,60), milliseconds,
\* microseconds and nanoseconds in [0,1000).
InRange(te) ==
    \A i \in 2..7 : 0 <= te[UnitFields[i]] /\ te[UnitFields[i]] < UnitRadix[i]

\* The same bounds on the magnitudes of the fields.
MagnitudeInRange(te) ==
    \A i \in 2..7 :
        -UnitRadix[i] < te[UnitFields[i]] /\ te[UnitFields[i]] < UnitRadix[i]

\* What is left of the duration, in nanoseconds, after the step of unit i
\* has subtracted its field.
Remainder(i) ==
    WideSub(ToNanoseconds(call.arg.duration, call.arg.Period),
            Through(Val(call.ret), i))

\* C12 as stated: the ranges hold for every TimeElements SplitTimeElements
\* produces, whatever the sign of its input.
C12_Original ==
    Returned("SplitTimeElements")
        => /\ InRange(Val(call.ret))
           /\ call.arg.duration[1] >= 0
                  => /\ Val(call.ret).d >= 0
                     /\ \A i \in 1..7 : Remainder(i)[1] >= 0

\* C12: for every TimeElements SplitTimeElements produces from a non-negative
\* duration, hours is in [0,24), minutes and seconds in [0,60), milliseconds,
\* microseconds and nanoseconds in [0,1000), days is non-negative and no step
\* leaves a negative remainder; from any duration the magnitudes of these
\* fields are within the same bounds.
C12_Ranges ==
    Returned("SplitTimeElements")
        => /\ MagnitudeInRange(Val(call.ret))
           /\ call.arg.duration[1] >= 0
                  => /\ InRange(Val(call.ret))
                     /\ Val(call.ret).d >= 0
                     /\ \A i \in 1..7 : Remainder(i)[1] >= 0

\* A split has returned the largest count of every unit.
C12_Witness ==
    /\ Returned("SplitTimeElements")
    /\ call.arg.Period = nano
    /\ Val(call.ret).d = MaxDays
    /\ \A i \in 2..7 : Val(call.ret)[UnitFields[i]] = UnitRadix[i] - 1

WidePositive(w) == w[1] > 0 \/ (w[1] = 0 /\ w[2] > 0)

\* C13: for a negative duration every step of SplitTimeElements truncates
\* toward zero: what is left after the step of a unit is zero or negative and
\* less than one such unit in magnitude, so every field is zero or negative,
\* and the weighted sum of the fields equals the duration in nanoseconds.
C13_Negative ==
    (Returned("SplitTimeElements") /\ call.arg.duration[1] < 0)
        => /\ \A i \in 1..7 : Val(call.ret)[UnitFields[i]] <= 0
           /\ \A i \in 1..7 :
                  /\ ~WidePositive(Remainder(i))
                  /\ WidePositive(WideAdd(Remainder(i),
                                          ToNanoseconds(Wide(1),
                                                        UnitPeriods[i])))
           /\ Reassembled(Val(call.ret))
                  = ToNanoseconds(call.arg.duration, call.arg.Period)

\* A split of a negative duration has returned, negative at every unit.
C13_Witness ==
    /\ Returned("SplitTimeElements")
    /\ call.arg.duration[1] < 0
    /\ call.arg.Period = nano
    /\ Val(call.ret).d = -MaxDays
    /\ \A i \in 2..7 : Val(call.ret)[UnitFields[i]] = 1 - UnitRadix[i]

(***************************************************************************)
(* Reading a rendered string back.  The string is cut after every period;  *)
(* each piece is a count (the leading digits and sign) and a label (the    *)
(* rest of the piece).                                                     *)
(***************************************************************************)
DigitChars == {"0", "1", "2", "3", "4", "5", "6", "7", "8", "9"}

RECURSIVE Scan(_, _, _, _)
Scan(str, i, count, label) ==
    IF i > Len(str)
    THEN IF count = "" /\ label = "" THEN <<>>
         ELSE <<[count |-> count, label |-> label, closed |-> FALSE]>>
    ELSE LET c == SubSeq(str, i, i)
         IN  IF c = "."
             THEN <<[count |-> count, label |-> label, closed |-> TRUE]>>
                  \o Scan(str, i + 1, "", "")
             ELSE IF label = "" /\ c \in DigitChars \cup {"-"}
             THEN Scan(str, i + 1, count \o c, label)
             ELSE Scan(str, i + 1, count, label \o c)

Pieces(str) == Scan(str, 1, "", "")

\* The unit a piece is labelled with, 0 if its label is no unit's.
UnitOfLabel(label) ==
    IF \E i \in 1..7 : UnitFields[i] = label
    THEN CHOOSE i \in 1..7 : UnitFields[i] = label
    ELSE 0

\* The units printed in the string, in the order of their printing.
PrintedUnits(str) ==
    [n \in 1..Len(Pieces(str)) |-> UnitOfLabel(Pieces(str)[n].label)]

Printed(i, str) == \E n \in 1..Len(Pieces(str)) : PrintedUnits(str)[n] = i

\* Unit i is a candidate for printing at origin resolution P: it is no finer
\* than P (the units are listed coarsest first).
Candidate(i, P) == i <= UnitOf(P)

\* C14: in TimeElementsToString, once any unit has a non-zero count, every
\* candidate unit from that one onward is printed, even when its own count
\* is zero.
C14_Activation ==
    Returned("TimeElementsToString")
        => \A i \in 1..7 :
               (/\ Candidate(i, call.arg.Period)
                /\ \E j \in 1..i : call.arg.timeElements[UnitFields[j]] # 0)
                   => Printed(i, Val(call.ret))

\* C15: for any TimeElements and any origin resolution, every unit in the
\* rendered string is one whose period is greater than or equal to the
\* period of the origin resolution, and the printed units appear in the order
\* days, hours, minutes, seconds, ms, us, ns.
C15_Candidates ==
    Returned("TimeElementsToString")
        => LET units == PrintedUnits(Val(call.ret))
           IN  /\ \A n \in 1..Len(units) :
                      units[n] \in 1..7 /\ Candidate(units[n], call.arg.Period)
               /\ \A n \in 1..(Len(units) - 1) : units[n] < units[n + 1]

\* A rendering at second resolution of positive counts at every unit has
\* returned: the four coarsest units are printed, the three finer are not.
C15_Witness ==
    /\ Returned("TimeElementsToString")
    /\ call.arg.Period = seconds_period
    /\ \A i \in 1..7 : call.arg.timeElements[UnitFields[i]] = MaxField
    /\ PrintedUnits(Val(call.ret)) = <<1, 2, 3, 4>>

\* C16: a duration of exactly zero, at any resolution, is rendered by
\* TimeToString as the empty string.
C16_ZeroEmpty ==
    (Returned("TimeToString") /\ call.arg.duration = Wide(0))
        => Val(call.ret) = ""

\* TimeToString has returned for zero nanoseconds.
C16_Witness ==
    /\ Returned("TimeToString")
    /\ call.arg.duration = Wide(0)
    /\ call.arg.Period = nano
    /\ Pieces(Val(call.ret)) = <<>>

\* The field width set before the count of each unit (none for the days).
UnitWidth == <<0, 2, 2, 2, 3, 3, 3>>

AllDigits(text) ==
    /\ Len(text) >= 1
    /\ \A k \in 1..Len(text) : SubSeq(text, k, k) \in DigitChars

\* The piece is <count><label>. for unit i: the count of the days is a
\* decimal number with no padding, the count of any other unit has exactly
\* as many digits as the width of its unit.
PieceOf(piece, i) ==
    /\ piece.closed
    /\ piece.label = UnitFields[i]
    /\ AllDigits(piece.count)
    /\ IF i = 1
       THEN Len(piece.count) = 1 \/ SubSeq(piece.count, 1, 1) # "0"
       ELSE Len(piece.count) = UnitWidth[i]

\* The string is a word of
\*   (<days>d.)?(<HH>h.)?(<MM>m.)?(<SS>s.)?(<mmm>ms.)?(<uuu>us.)?(<nnn>ns.)?
\* with nothing else in it.
MatchesGrammar(str) ==
    LET pieces == Pieces(str)
        units == PrintedUnits(str)
    IN  /\ \A n \in 1..Len(pieces) :
               units[n] \in 1..7 /\ PieceOf(pieces[n], units[n])
        /\ \A n \in 1..(Len(pieces) - 1) : units[n] < units[n + 1]

\* C17: for every non-negative duration, the string TimeToString returns
\* matches the grammar: days unpadded, hours, minutes and seconds as exactly
\* two digits, ms, us and ns as exactly three digits, each followed by its
\* label and one period, and nothing else.
C17_Grammar ==
    (Returned("TimeToString") /\ call.arg.duration[1] >= 0)
        => MatchesGrammar(Val(call.ret))

\* TimeToString has returned all seven units, the days with two digits and
\* the hours as "00".
C17_Witness ==
    /\ Returned("TimeToString")
    /\ call.arg.duration[1] >= 0
    /\ Len(Pieces(Val(call.ret))) = 7
    /\ Len(Pieces(Val(call.ret))[1].count) = 2
    /\ Pieces(Val(call.ret))[2].count = "00"

\* The number a string of digits writes.
RECURSIVE CountValue(_)
CountValue(text) ==
    IF text = "" THEN 0
    ELSE LET last == SubSeq(text, Len(text), Len(text))
         IN  CountValue(SubSeq(text, 1, Len(text) - 1)) * 10
             + (CHOOSE n \in 0..9 : DigitChar(n) = last)

\* The TimeElements a string shows: the count printed for each unit, zero
\* for a unit that is not printed.
FieldsRead(str) ==
    [u \in {UnitFields[i] : i \in 1..7} |->
        IF \E n \in 1..Len(Pieces(str)) : Pieces(str)[n].label = u
        THEN CountValue(Pieces(str)[CHOOSE n \in 1..Len(Pieces(str)) :
                                        Pieces(str)[n].label = u].count)
        ELSE 0]

\* C18: TimeToString renders 3661 seconds as "01h.01m.01s.", 90000
\* milliseconds as "01m.30s.000ms." and 90061500250125 nanoseconds as
\* "1d.01h.01m.01s.500ms.250us.125ns."; for every non-negative duration at
\* resolution R the string holds the fields of the duration from the first
\* non-zero unit down to the unit of R, one after the other, and nothing
\* else.
C18_Pipeline ==
    Returned("TimeToString")
        => /\ call.arg = [duration |-> Wide(3661), Period |-> seconds_period]
                  => Val(call.ret) = "01h.01m.01s."
           /\ call.arg = [duration |-> Wide(90000), Period |-> milli]
                  => Val(call.ret) = "01m.30s.000ms."
           /\ call.arg = [duration |-> Scenario4, Period |-> nano]
                  => Val(call.ret) = "1d.01h.01m.01s.500ms.250us.125ns."
           /\ call.arg.duration[1] >= 0
                  => LET units == PrintedUnits(Val(call.ret))
                         read == FieldsRead(Val(call.ret))
                     IN  /\ MatchesGrammar(Val(call.ret))
                         /\ call.arg.duration = Wide(0) => units = <<>>
                         /\ call.arg.duration # Wide(0)
                                => /\ units # <<>>
                                   /\ read[UnitFields[units[1]]] # 0
                                   /\ units[Len(units)] = UnitOf(call.arg.Period)
                                   /\ \A n \in 1..(Len(units) - 1) :
                                          units[n + 1] = units[n] + 1
                         /\ InRange(read)
                         /\ Reassembled(read)
                                = ToNanoseconds(call.arg.duration,
                                                call.arg.Period)

\* TimeToString has returned for the 90061500250125 nanoseconds, with all
\* seven units in the string.
C18_Witness ==
    /\ Returned("TimeToString")
    /\ call.arg = [duration |-> Scenario4, Period |-> nano]
    /\ PrintedUnits(Val(call.ret)) = <<1, 2, 3, 4, 5, 6, 7>>

\* C19: for any TimeElements and any origin resolution, a rendered string
\* that is not empty does not begin with a unit whose count is zero: the
\* first unit printed has a non-zero count, in the TimeElements and in the
\* string.
C19_NoLeadingZero ==
    (Returned("TimeElementsToString") /\ Val(call.ret) # "")
        => LET first == Pieces(Val(call.ret))[1]
           IN  /\ UnitOfLabel(first.label) \in 1..7
               /\ call.arg.timeElements[first.label] # 0
               /\ AllDigits(first.count)
               /\ CountValue(first.count) # 0

\* A rendering at nanosecond resolution has returned whose days and hours
\* are zero and left out: the string begins with the minutes.
C19_Witness ==
    /\ Returned("TimeElementsToString")
    /\ call.arg.Period = nano
    /\ call.arg.timeElements.d = 0
    /\ call.arg.timeElements.h = 0
    /\ call.arg.timeElements.m = MaxField
    /\ call.arg.timeElements.s = 0
    /\ PrintedUnits(Val(call.ret)) = <<3, 4, 5, 6, 7>>

\* C20: for periods P1 = n1/d1 and P2 = n2/d2 of positive integers,
\* ratio_less is true exactly when n1*d2 < n2*d1, ratio_less_equal exactly
\* when n1*d2 <= n2*d1 (P1 <= P2 as rationals), exactly one of less, equal
\* and greater holds, less_equal is the negation of greater and
\* greater_equal the negation of less.
C20_RatioOrdering ==
    Returned("ratio")
        => LET a == call.arg
               v == Val(call.ret)
           IN  /\ v.less <=> a.n1 * a.d2 < a.n2 * a.d1
               /\ v.less_equal <=> a.n1 * a.d2 <= a.n2 * a.d1
               /\ \/ v.less /\ ~v.equal /\ ~v.greater
                  \/ ~v.less /\ v.equal /\ ~v.greater
                  \/ ~v.less /\ ~v.equal /\ v.greater
               /\ v.not_equal <=> ~v.equal
               /\ v.less_equal <=> ~v.greater
               /\ v.greater_equal <=> ~v.less

\* The comparisons of 2/4 with 1/2, equal though written in different
\* terms, have been evaluated.
C20_Witness ==
    /\ Returned("ratio")
    /\ call.arg = [n1 |-> 2, d1 |-> 4, n2 |-> 1, d2 |-> 2]
    /\ Val(call.ret).equal
    /\ Val(call.ret).less_equal

====
